---- MODULE Spec2Model ----
(***************************************************************************)
(* Model of sweepstake.py: the Sweepstake dataclass.  Construction        *)
(* (__post_init__) segments the ranked teams into runs of                 *)
(* min(len(participants), len(teams)); assign_teams then hands every team *)
(* of every segment to a participant drawn at random from the ones not    *)
(* yet used in that segment.                                              *)
(***************************************************************************)
EXTENDS Integers, Sequences, FiniteSets, TLC

\* ---------------------------------------------------------------- bounds
MaxParticipants == 3
MaxTeams == 3
MaxCalls == 2
MaxSpin == 2

\* Participant names, and the ranked teams the inputs are prefixes of
Names == <<"A", "B", "C", "D">>
Ranking == <<"T1", "T2", "T3", "T4", "T5", "T6">>

VARIABLES
    participants,     \* self.participants
    teams,            \* self.teams
    segmented,        \* segment_teams: local list `segmented`
    remaining_teams,  \* segment_teams: local list `remaining_teams`
    segmented_teams,  \* self.segmented_teams
    assignments,      \* self.assignments: name -> list of team names
    pc,               \* control point of the program
    seg_i,            \* assign_teams: index of the segment being processed
    team_i,           \* assign_from_segments: index of the team being assigned
    pool,             \* assign_from_segments: local list `participants`
    raised,           \* exception that ended the run, "none" if none
    calls,            \* number of assign_teams calls started
    draws,            \* number of random.choice calls that returned
    placed            \* history: name -> list of <<call, team position>>

vars == <<participants, teams, segmented, remaining_teams, segmented_teams,
          assignments, pc, seg_i, team_i, pool, raised, calls, draws, placed>>

\* ---------------------------------------------------------------- helpers
Min(a, b) == IF a <= b THEN a ELSE b
Max(a, b) == IF a >= b THEN a ELSE b

Range(s) == {s[i] : i \in 1..Len(s)}

SeqsUpTo(S, n) == UNION {[1..k -> S] : k \in 0..n}

\* Participants lists up to a renaming of the participants: the names occur
\* for the first time in the order of Names.  Names may repeat.
FirstSeenInOrder(s) ==
    \A i \in 1..Len(s) : \A k \in 1..Len(Names) :
        s[i] = Names[k] =>
            \A m \in 1..(k - 1) : \E j \in 1..(i - 1) : s[j] = Names[m]
ParticipantLists ==
    {s \in SeqsUpTo(Range(Names), MaxParticipants) : FirstSeenInOrder(s)}
TeamLists == {SubSeq(Ranking, 1, n) : n \in 0..MaxTeams}

\* Python slices list[:k] and list[k:]: a negative k counts from the end, and
\* an index past either end is clamped
SliceIndex(list, k) ==
    IF k < 0 THEN Max(Len(list) + k, 0) ELSE Min(k, Len(list))
SliceTo(list, k) == SubSeq(list, 1, SliceIndex(list, k))
SliceFrom(list, k) == SubSeq(list, SliceIndex(list, k) + 1, Len(list))

\* list.append(x), and a variant that inserts at the front
list_insert_front(list, x) == <<x>> \o list
list_append(list, x) == Append(list, x)

\* index of the first occurrence of x in list (x occurs in list)
FirstIndex(list, x) == CHOOSE i \in 1..Len(list) :
    list[i] = x /\ \A j \in 1..(i - 1) : list[j] # x

\* list.remove(x): drops the first occurrence of x; variants that drop
\* every occurrence, or none
RECURSIVE list_remove_all(_, _)
list_remove_all(list, x) ==
    IF list = <<>> THEN <<>>
    ELSE IF Head(list) = x THEN list_remove_all(Tail(list), x)
    ELSE <<Head(list)>> \o list_remove_all(Tail(list), x)
list_remove_none(list, x) == list
list_remove(list, x) ==
    LET i == FirstIndex(list, x)
    IN  SubSeq(list, 1, i - 1) \o SubSeq(list, i + 1, Len(list))

\* take_segment: <<segment, teams remaining>>; variants whose rest skips one
\* team, whose segment is one team wider, and whose segment is one narrower
take_segment_skip(remaining) ==
    LET segment_index == Min(Len(participants), Len(teams))
    IN  <<SliceTo(remaining, segment_index), SliceFrom(remaining, segment_index + 1)>>
take_segment_wide(remaining) ==
    LET segment_index == Min(Len(participants), Len(teams)) + 1
    IN  <<SliceTo(remaining, segment_index), SliceFrom(remaining, segment_index)>>
take_segment_short(remaining) ==
    LET segment_index == Min(Len(participants), Len(teams)) - 1
    IN  <<SliceTo(remaining, segment_index), SliceFrom(remaining, segment_index)>>
take_segment(remaining) ==
    LET segment_index == Min(Len(participants), Len(teams))
    IN  <<SliceTo(remaining, segment_index), SliceFrom(remaining, segment_index)>>

\* {participant: [] for participant in self.participants}
empty_assignments == [p \in Range(participants) |-> <<>>]

\* ---------------------------------------------------------------- initial state
\* Entry of __post_init__ -> segment_teams, lines 56-57
Init ==
    /\ participants \in ParticipantLists
    /\ teams \in TeamLists
    /\ segmented = <<>>
    /\ remaining_teams = teams
    /\ segmented_teams = <<>>
    /\ assignments = <<>>
    /\ pc = "segment_teams"
    /\ seg_i = 0
    /\ team_i = 0
    /\ pool = <<>>
    /\ raised = "none"
    /\ calls = 0
    /\ draws = 0
    /\ placed = <<>>

\* ---------------------------------------------------------------- actions
\* One iteration of the while loop of segment_teams.  The loop itself has no
\* bound; the model stops following it after MaxTeams + MaxSpin iterations.
SegmentStep ==
    /\ pc = "segment_teams"
    /\ Len(remaining_teams) > 0
    /\ Len(segmented) < MaxTeams + MaxSpin
    /\ segmented' = Append(segmented, take_segment(remaining_teams)[1])
    /\ remaining_teams' = take_segment(remaining_teams)[2]
    /\ UNCHANGED <<participants, teams, segmented_teams, assignments, pc,
                   seg_i, team_i, pool, raised, calls, draws, placed>>

\* Loop exit of segment_teams, then the two assignments of __post_init__
PostInit ==
    /\ pc = "segment_teams"
    /\ Len(remaining_teams) = 0
    /\ segmented_teams' = segmented
    /\ assignments' = empty_assignments
    /\ placed' = empty_assignments
    /\ pc' = "idle"
    /\ UNCHANGED <<participants, teams, segmented, remaining_teams,
                   seg_i, team_i, pool, raised, calls, draws>>

\* A call of assign_teams; the variant starts from an emptied mapping
AssignTeamsResetting ==
    /\ pc = "idle"
    /\ calls < MaxCalls
    /\ calls' = calls + 1
    /\ seg_i' = 1
    /\ pc' = "assign_teams"
    /\ assignments' = empty_assignments
    /\ placed' = empty_assignments
    /\ UNCHANGED <<participants, teams, segmented, remaining_teams,
                   segmented_teams, team_i, pool, raised, draws>>
AssignTeams ==
    /\ pc = "idle"
    /\ calls < MaxCalls
    /\ calls' = calls + 1
    /\ seg_i' = 1
    /\ pc' = "assign_teams"
    /\ UNCHANGED <<participants, teams, segmented, remaining_teams,
                   segmented_teams, assignments, team_i, pool, raised,
                   draws, placed>>

\* assign_teams takes the next segment and calls assign_from_segments, which
\* copies the participants
BeginSegment ==
    /\ pc = "assign_teams"
    /\ seg_i <= Len(segmented_teams)
    /\ pool' = participants
    /\ team_i' = 1
    /\ pc' = "assign_from_segments"
    /\ UNCHANGED <<participants, teams, segmented, remaining_teams,
                   segmented_teams, assignments, seg_i, raised, calls,
                   draws, placed>>

\* One iteration of the for loop of assign_from_segments.  random.choice of
\* an empty list raises IndexError.  The variant works on self.participants
\* itself instead of a copy.
DrawAliased ==
    /\ pc = "assign_from_segments"
    /\ team_i <= Len(segmented_teams[seg_i])
    /\ IF pool = <<>>
       THEN /\ raised' = "IndexError"
            /\ pc' = "raised"
            /\ UNCHANGED <<assignments, pool, team_i, draws, placed, participants>>
       ELSE \E k \in 1..Len(pool) :
              LET participant == pool[k]
                  team == segmented_teams[seg_i][team_i]
              IN  /\ assignments' = [assignments EXCEPT ![participant] =
                                        list_append(@, team)]
                  /\ placed' = [placed EXCEPT ![participant] =
                                        list_append(@, <<calls, seg_i, team_i>>)]
                  /\ pool' = list_remove(pool, participant)
                  /\ participants' = list_remove(pool, participant)
                  /\ team_i' = team_i + 1
                  /\ draws' = draws + 1
                  /\ UNCHANGED <<pc, raised>>
    /\ UNCHANGED <<teams, segmented, remaining_teams, segmented_teams,
                   seg_i, calls>>
Draw ==
    /\ pc = "assign_from_segments"
    /\ team_i <= Len(segmented_teams[seg_i])
    /\ IF pool = <<>>
       THEN /\ raised' = "IndexError"
            /\ pc' = "raised"
            /\ UNCHANGED <<assignments, pool, team_i, draws, placed>>
       ELSE \E k \in 1..Len(pool) :
              LET participant == pool[k]
                  team == segmented_teams[seg_i][team_i]
              IN  /\ assignments' = [assignments EXCEPT ![participant] =
                                        list_append(@, team)]
                  /\ placed' = [placed EXCEPT ![participant] =
                                        list_append(@, <<calls, seg_i, team_i>>)]
                  /\ pool' = list_remove(pool, participant)
                  /\ team_i' = team_i + 1
                  /\ draws' = draws + 1
                  /\ UNCHANGED <<pc, raised>>
    /\ UNCHANGED <<participants, teams, segmented, remaining_teams,
                   segmented_teams, seg_i, calls>>

\* The for loop of assign_from_segments is exhausted; back in assign_teams
EndSegment ==
    /\ pc = "assign_from_segments"
    /\ team_i > Len(segmented_teams[seg_i])
    /\ seg_i' = seg_i + 1
    /\ pc' = "assign_teams"
    /\ UNCHANGED <<participants, teams, segmented, remaining_teams,
                   segmented_teams, assignments, team_i, pool, raised,
                   calls, draws, placed>>

\* The for loop of assign_teams is exhausted; assign_teams returns
AssignTeamsReturn ==
    /\ pc = "assign_teams"
    /\ seg_i > Len(segmented_teams)
    /\ pc' = "idle"
    /\ UNCHANGED <<participants, teams, segmented, remaining_teams,
                   segmented_teams, assignments, seg_i, team_i, pool,
                   raised, calls, draws, placed>>

Next ==
    \/ SegmentStep
    \/ PostInit
    \/ AssignTeams
    \/ BeginSegment
    \/ Draw
    \/ EndSegment
    \/ AssignTeamsReturn

Spec == Init /\ [][Next]_vars

\* The interpreter runs every step of a started function, and the script
\* calls assign_teams once after construction (lines 90-94)
FairSpec ==
    /\ Spec
    /\ WF_vars(SegmentStep)
    /\ WF_vars(PostInit)
    /\ WF_vars(AssignTeams /\ calls = 0)
    /\ WF_vars(BeginSegment)
    /\ WF_vars(Draw)
    /\ WF_vars(EndSegment)
    /\ WF_vars(AssignTeamsReturn)

\* ---------------------------------------------------------------- vocabulary
NumParticipants == Len(participants)
NumTeams == Len(teams)
SegmentSize == Min(NumParticipants, NumTeams)
Constructed == pc # "segment_teams"
DistinctNames == Cardinality(Range(participants)) = NumParticipants
CeilDiv(a, b) == (a + b - 1) \div b

RECURSIVE Concat(_)
Concat(lists) ==
    IF lists = <<>> THEN <<>> ELSE Head(lists) \o Concat(Tail(lists))

\* number of teams in the segments before segment k
RECURSIVE Offset(_)
Offset(k) == IF k <= 1 THEN 0 ELSE Offset(k - 1) + Len(segmented_teams[k - 1])

\* position in teams of the team a history entry <<call, segment, index>> is about
Position(e) == Offset(e[2]) + e[3]

\* the slots <<name, index>> of the assignment mapping
Slots == UNION {{<<p, i>> : i \in 1..Len(assignments[p])} : p \in DOMAIN assignments}
SlotsOf(pos) == {sl \in Slots :
    /\ Position(placed[sl[1]][sl[2]]) = pos
    /\ assignments[sl[1]][sl[2]] = teams[pos]}
TotalAssigned == Cardinality(Slots)
IsPrefix(s, t) == Len(s) <= Len(t) /\ SubSeq(t, 1, Len(s)) = s
\* ---------------------------------------------------------------- claims
\* C1: after construction with at least one participant and one complete
\* assign_teams, every position of teams sits in exactly one slot of the
\* mapping, and the lists of the mapping hold NumTeams teams in total.
Conservation ==
    (pc = "idle" /\ calls = 1 /\ NumParticipants >= 1) =>
        /\ \A pos \in 1..NumTeams : Cardinality(SlotsOf(pos)) = 1
        /\ TotalAssigned = NumTeams
ConservationWitness ==
    /\ pc = "idle" /\ calls = 1
    /\ NumParticipants >= 2 /\ NumTeams = 3
    /\ TotalAssigned = 3
    /\ \A pos \in 1..3 : Cardinality(SlotsOf(pos)) = 1

\* C2: with no participant and at least one team the construction fails
\* fast with InvalidInput: the segmentation loop does not run an iteration.
FailsFastWithoutParticipants ==
    (NumParticipants = 0 /\ NumTeams >= 1) =>
        /\ segmented = <<>>
        /\ (pc = "segment_teams" \/ raised = "InvalidInput")

\* C3: in one assign_teams run no participant name receives two teams of
\* the same segment, whatever names the participants list holds.
OnePerNamePerSegment ==
    \A p \in DOMAIN placed : \A i, j \in 1..Len(placed[p]) :
        (i < j /\ placed[p][i][1] = placed[p][j][1]) =>
            placed[p][i][2] # placed[p][j][2]

\* C4: with at least one participant the segments concatenate to teams,
\* every segment but the last has SegmentSize teams, the last has between 1
\* and SegmentSize, there are ceil(NumTeams / SegmentSize) segments, and
\* none when there is no team.
Tiling ==
    (Constructed /\ NumParticipants >= 1) =>
        LET n == Len(segmented_teams)
        IN  /\ Concat(segmented_teams) = teams
            /\ \A k \in 1..(n - 1) : Len(segmented_teams[k]) = SegmentSize
            /\ n > 0 => Len(segmented_teams[n]) \in 1..SegmentSize
            /\ n = (IF NumTeams = 0 THEN 0 ELSE CeilDiv(NumTeams, SegmentSize))
TilingWitness ==
    /\ Constructed
    /\ NumParticipants = 2
    /\ Len(segmented_teams) = 2
    /\ Len(segmented_teams[1]) = 2
    /\ Len(segmented_teams[2]) = 1

\* C5: while a segment is assigned the pool holds the participants minus one
\* entry per draw made, which is at least the teams of the segment still to
\* assign; every draw finds a non-empty pool and shrinks it by exactly one
\* entry; the segment ends after as many draws as it has teams; no draw
\* raises.
PoolInvariant ==
    /\ raised = "none"
    /\ pc = "assign_from_segments" =>
        LET segment == segmented_teams[seg_i]
        IN  /\ Len(segment) <= NumParticipants
            /\ team_i - 1 <= Len(segment)
            /\ Len(pool) = NumParticipants - (team_i - 1)
            /\ Len(pool) >= Len(segment) - (team_i - 1)
            /\ draws = (calls - 1) * NumTeams + Offset(seg_i) + (team_i - 1)
PoolStep ==
    /\ draws' # draws =>
        /\ pool # <<>>
        /\ draws' = draws + 1
        /\ Len(pool') = Len(pool) - 1
    /\ (pc = "assign_from_segments" /\ pc' = "assign_teams") =>
        /\ team_i - 1 = Len(segmented_teams[seg_i])
        /\ NumParticipants - Len(pool) = Len(segmented_teams[seg_i])
    /\ (pc = "assign_from_segments" /\ pc' = pc) => draws' = draws + 1
PoolNeverExhausted == [] PoolInvariant /\ [][PoolStep]_vars
PoolNeverExhaustedWitness ==
    /\ pc = "assign_from_segments"
    /\ Len(segmented_teams[seg_i]) = NumParticipants
    /\ NumParticipants >= 2
    /\ team_i > Len(segmented_teams[seg_i])
    /\ pool = <<>>

\* C6: with distinct participant names, after one complete assign_teams
\* every participant holds floor(NumTeams / NumParticipants) or
\* ceil(NumTeams / NumParticipants) teams.
Balance ==
    (pc = "idle" /\ calls = 1 /\ NumParticipants >= 1 /\ DistinctNames) =>
        \A p \in DOMAIN assignments :
            Len(assignments[p]) \in
                {NumTeams \div NumParticipants, CeilDiv(NumTeams, NumParticipants)}
BalanceWitness ==
    /\ pc = "idle" /\ calls = 1 /\ DistinctNames
    /\ NumParticipants = 2 /\ NumTeams = 3
    /\ \E p, q \in DOMAIN assignments :
        Len(assignments[p]) = 1 /\ Len(assignments[q]) = 2

\* C7: in every participant's list a team of an earlier segment precedes a
\* team of a later segment of the same assign_teams run (and a team of an
\* earlier run precedes a team of a later run); a step only ever appends to
\* a list.
SegmentOrder ==
    \A p \in DOMAIN placed : \A i, j \in 1..Len(placed[p]) :
        i < j =>
            /\ placed[p][i][1] <= placed[p][j][1]
            /\ placed[p][i][1] = placed[p][j][1] => placed[p][i][2] <= placed[p][j][2]
            /\ assignments[p][i] = segmented_teams[placed[p][i][2]][placed[p][i][3]]
AppendOnly ==
    \A p \in DOMAIN assignments :
        /\ p \in DOMAIN assignments'
        /\ IsPrefix(assignments[p], assignments'[p])
        /\ Len(assignments'[p]) <= Len(assignments[p]) + 1
ListsKeepSegmentOrder == [] SegmentOrder /\ [][AppendOnly]_vars
ListsKeepSegmentOrderWitness ==
    /\ calls = 1
    /\ \E p \in DOMAIN placed : \E i, j \in 1..Len(placed[p]) :
        i < j /\ placed[p][i][2] < placed[p][j][2]

\* C8: once constructed, no step changes participants, teams or
\* segmented_teams, and the lengths of the segments are the ones the two
\* list lengths fix, whatever was drawn.
SegmentsAsLengthsFix ==
    Constructed =>
        \A k \in 1..Len(segmented_teams) :
            Len(segmented_teams[k]) =
                Min(SegmentSize, NumTeams - (k - 1) * SegmentSize)
AssignmentFrame ==
    Constructed => UNCHANGED <<participants, teams, segmented_teams>>
SegmentationIndependent == [] SegmentsAsLengthsFix /\ [][AssignmentFrame]_vars
SegmentationIndependentWitness ==
    /\ pc = "idle" /\ calls >= 1
    /\ draws >= 3
    /\ Len(segmented_teams) >= 2
    /\ \E p \in DOMAIN assignments : Len(assignments[p]) >= 2

\* C9: with at least one participant, construction and the first
\* assign_teams run to completion having made exactly NumTeams draws, and
\* every iteration of the segmentation loop shortens remaining_teams.
Completed == pc = "idle" /\ calls = 1 /\ draws = NumTeams
LoopShortens ==
    (NumParticipants >= 1 /\ segmented' # segmented) =>
        Len(remaining_teams') < Len(remaining_teams)
Termination ==
    /\ (pc = "segment_teams" /\ NumParticipants >= 1) ~> Completed
    /\ [][LoopShortens]_vars
TerminationWitness ==
    /\ Completed
    /\ NumParticipants >= 2
    /\ NumTeams = 3
    /\ Len(segmented) = 2

\* C10: after k complete calls of assign_teams (at least one participant)
\* every position of teams sits in exactly k slots of the mapping, one per
\* call, and the lists hold k * NumTeams teams; so with at least one team
\* each team is in exactly one list only when k = 1.
Cumulative ==
    (pc = "idle" /\ NumParticipants >= 1) =>
        /\ \A pos \in 1..NumTeams :
            /\ Cardinality(SlotsOf(pos)) = calls
            /\ \A c \in 1..calls :
                 Cardinality({sl \in SlotsOf(pos) : placed[sl[1]][sl[2]][1] = c}) = 1
        /\ TotalAssigned = calls * NumTeams
        /\ NumTeams >= 1 =>
             ((\A pos \in 1..NumTeams : Cardinality(SlotsOf(pos)) = 1) <=> calls = 1)
CumulativeWitness ==
    /\ pc = "idle" /\ calls = 2
    /\ NumParticipants >= 2 /\ NumTeams >= 2
    /\ TotalAssigned = 2 * NumTeams

====
